---- MODULE Spec2Model ----
(***************************************************************************)
(* swearkiller: the subtitle-to-mute-interval pipeline of gui.go and of    *)
(* the command-line entry point (parseSRTTime, findSwearTimestamps,        *)
(* mergeSegments, generateFFmpegCommand, getVolumeFilter).                 *)
(*                                                                         *)
(* Strings are TLA+ strings, read character by character with SubSeq.      *)
(* Times are float64 seconds in the source; here they are integers in      *)
(* milliseconds, the resolution of an SRT timestamp, so 83.456 s is 83456. *)
(***************************************************************************)
EXTENDS Integers, Sequences, FiniteSets, TLC

VARIABLES
    pc,              \* position of the entry point being run
    srtTime,         \* parseSRTTime: its argument
    seconds,         \* parseSRTTime: the value returned (ms)
    err,             \* the error returned ("" is nil)
    segments,        \* the []Segment handed to mergeSegments (sorted in place)
    mergedSegments,  \* what mergeSegments returned
    remerged,        \* what mergeSegments returned for its own output
    inputVideo,      \* videoPath / --video
    outputVideo,     \* outputPath / --output
    lastCommand,     \* app.lastCommand: what generateFFmpegCommand returned
    volumeFilter,    \* executeFFmpeg: what getVolumeFilter returned
    afArg,           \* executeFFmpeg: the value of FFmpeg's -af argument
    swears,          \* the vocabulary handed to findSwearTimestamps
    offset,          \* the offset handed to findSwearTimestamps (ms)
    lineNo,          \* findSwearTimestamps: how many lines the scanner has read
    line,            \* findSwearTimestamps: the line last read, trimmed
    inSubtitleBlock, \* findSwearTimestamps: its local of that name
    currentStart,    \* findSwearTimestamps: its local of that name (ms)
    currentEnd,      \* findSwearTimestamps: its local of that name (ms)
    subtitleText,    \* findSwearTimestamps: the contents of its strings.Builder
    warnings,        \* the "Warning: Offset ..." messages logged so far
    srtPath,         \* app.srtPath
    autoOutput,      \* app.autoOutput.Checked
    processBtn,      \* app.processBtn is enabled
    executeBtn,      \* app.executeBtn is enabled
    progressBar,     \* app.progressBar is shown
    realProgressBar, \* app.realProgressBar and app.progressLabel are shown
    goroutines       \* executeFFmpeg's goroutines: how many are at each position

parseVars == <<srtTime, seconds>>
mergeVars == <<segments, mergedSegments, remerged>>
genVars == <<inputVideo, outputVideo, lastCommand, volumeFilter, afArg>>
inputVars == <<swears, offset>>
scanVars == <<lineNo, line, inSubtitleBlock, currentStart, currentEnd,
              subtitleText, warnings>>
guiVars == <<srtPath, autoOutput, processBtn, executeBtn, progressBar,
             realProgressBar, goroutines>>
vars == <<pc, srtTime, seconds, err, segments, mergedSegments, remerged,
          inputVideo, outputVideo, lastCommand, volumeFilter, afArg,
          swears, offset, lineNo, line, inSubtitleBlock, currentStart,
          currentEnd, subtitleText, warnings, srtPath, autoOutput,
          processBtn, executeBtn, progressBar, realProgressBar, goroutines>>

\* the scanner's variables before findSwearTimestamps is called
ScanIdle == /\ lineNo = 0 /\ line = "" /\ inSubtitleBlock = FALSE
            /\ currentStart = 0 /\ currentEnd = 0 /\ subtitleText = ""
            /\ warnings = <<>>

\* no goroutine of executeFFmpeg is anywhere
NoGoroutines == [starting |-> 0, waiting |-> 0, deferred |-> 0]

\* the window as main builds it: no file chosen, the auto-output box checked,
\* both buttons disabled, the progress bars hidden
GuiIdle == /\ srtPath = "" /\ autoOutput = TRUE
           /\ processBtn = FALSE /\ executeBtn = FALSE
           /\ progressBar = FALSE /\ realProgressBar = FALSE
           /\ goroutines = NoGoroutines

(***************************************************************************)
(* strings                                                                 *)
(***************************************************************************)
CharAt(s, i) == SubSeq(s, i, i)

\* s[i:] starts with p (i is a 1-based position)
HasPrefixAt(s, i, p) == /\ i >= 1
                        /\ i + Len(p) - 1 <= Len(s)
                        /\ SubSeq(s, i, i + Len(p) - 1) = p

\* the 0-based position of the first occurrence of sub at or after the
\* 1-based position i, -1 when there is none
RECURSIVE IndexFrom(_, _, _)
IndexFrom(s, sub, i) ==
    IF i + Len(sub) - 1 > Len(s) THEN -1
    ELSE IF HasPrefixAt(s, i, sub) THEN i - 1
    ELSE IndexFrom(s, sub, i + 1)

\* strings.Index: 0-based position of the first occurrence, -1 when there is none
Index(s, sub) == IndexFrom(s, sub, 1)

\* the 0-based position of the last occurrence of sub at or before the
\* 1-based position i, -1 when there is none
RECURSIVE LastIndexFrom(_, _, _)
LastIndexFrom(s, sub, i) ==
    IF i < 1 THEN -1
    ELSE IF HasPrefixAt(s, i, sub) THEN i - 1
    ELSE LastIndexFrom(s, sub, i - 1)

\* strings.LastIndex: 0-based position of the last occurrence, -1 when there is none
LastIndex(s, sub) == LastIndexFrom(s, sub, Len(s) - Len(sub) + 1)

\* strings.Contains: sub occurs at some position of s
Contains(s, sub) ==
    \E i \in 1..(Len(s) - Len(sub) + 1) : HasPrefixAt(s, i, sub)

\* Go's s[lo:hi] with 0-based lo and exclusive hi
Slice(s, lo, hi) == SubSeq(s, lo + 1, hi)

\* strings.Replace(s, old, new, 1): the first occurrence only
ReplaceFirst(s, old, new) ==
    LET i == Index(s, old)
    IN  IF i < 0 THEN s
        ELSE Slice(s, 0, i) \o new \o Slice(s, i + Len(old), Len(s))

DigitChars == "0123456789"

\* isDigit(s, i) of package time, and \d of package regexp (1-based i)
IsDigitAt(s, i) == /\ 1 <= i /\ i <= Len(s)
                   /\ CharAt(s, i) \in {CharAt(DigitChars, d) : d \in 1..10}

DigitVal(c) == Index(DigitChars, c)

\* the decimal number written by the n digits of s that start at i
RECURSIVE Atoi(_, _, _)
Atoi(s, i, n) ==
    IF n = 0 THEN 0
    ELSE 10 * Atoi(s, i, n - 1) + DigitVal(CharAt(s, i + n - 1))

(***************************************************************************)
(* parseSRTTime                                                            *)
(***************************************************************************)
ParseFail == [ok |-> FALSE, hour |-> 0, min |-> 0, sec |-> 0, nsec |-> 0]

\* time.Parse("15:04:05.000", value): the hour is one or two digits, minute
\* and second are two digits, the fraction is a '.' or ',' and three digits,
\* nothing may follow, and hour, minute and second are range-checked as a
\* clock time (hour < 24, minute < 60, second < 60).
TimeParseClockMillis(value) ==
    LET hlen == IF IsDigitAt(value, 1) /\ IsDigitAt(value, 2) THEN 2 ELSE 1
        p    == hlen + 1          \* position of the first ':'
        hour == Atoi(value, 1, hlen)
        min  == Atoi(value, p + 1, 2)
        sec  == Atoi(value, p + 4, 2)
        ms   == Atoi(value, p + 7, 3)
    IN  IF /\ IsDigitAt(value, 1)
           /\ HasPrefixAt(value, p, ":")
           /\ IsDigitAt(value, p + 1) /\ IsDigitAt(value, p + 2)
           /\ HasPrefixAt(value, p + 3, ":")
           /\ IsDigitAt(value, p + 4) /\ IsDigitAt(value, p + 5)
           /\ (HasPrefixAt(value, p + 6, ".") \/ HasPrefixAt(value, p + 6, ","))
           /\ IsDigitAt(value, p + 7) /\ IsDigitAt(value, p + 8)
           /\ IsDigitAt(value, p + 9)
           /\ Len(value) = p + 9
           /\ hour < 24 /\ min < 60 /\ sec < 60
        THEN [ok |-> TRUE, hour |-> hour, min |-> min, sec |-> sec,
              nsec |-> ms * 1000000]
        ELSE ParseFail

\* the mutant: the minutes are not scaled to seconds
parseSRTTimeNoMinutes(s) ==
    LET d == TimeParseClockMillis(ReplaceFirst(s, ",", "."))
    IN  IF ~d.ok THEN [err |-> "failed to parse SRT time", seconds |-> 0]
        ELSE [err |-> "",
              seconds |-> (d.hour * 3600 + d.min + d.sec) * 1000
                          + d.nsec \div 1000000]

\* parseSRTTime: [err, seconds], seconds in milliseconds
parseSRTTime(s) ==
    LET d == TimeParseClockMillis(ReplaceFirst(s, ",", "."))
    IN  IF ~d.ok THEN [err |-> "failed to parse SRT time", seconds |-> 0]
        ELSE [err |-> "",
              seconds |-> (d.hour * 3600 + d.min * 60 + d.sec) * 1000
                          + d.nsec \div 1000000]

(***************************************************************************)
(* SpecParse: parseSRTTime applied to one timestamp string                 *)
(***************************************************************************)
HourTens == {"0", "2", "9"}
HourOnes == {"0", "3", "4"}
MinTens  == {"0", "5", "6"}
MinOnes  == {"1", "9"}
SecTens  == {"0", "2", "5", "7"}
SecOnes  == {"0", "3"}
Millis   == {"000", "007", "456", "999"}

\* the strings the block-start pattern can capture: \d{2}:\d{2}:\d{2},\d{3}
LexicalTimestamps ==
    {h1 \o h2 \o ":" \o m1 \o m2 \o ":" \o s1 \o s2 \o "," \o f :
        h1 \in HourTens, h2 \in HourOnes, m1 \in MinTens, m2 \in MinOnes,
        s1 \in SecTens, s2 \in SecOnes, f \in Millis}

\* strings of another shape
OtherTimestamps == {"", "00:00:05", "00:00:05,00", "00:00:05,0000",
                    "00-00-05,000", "0a:00:05,000", "00:00:05;000"}

InitParse == /\ pc = "parse"
             /\ srtTime \in LexicalTimestamps \cup OtherTimestamps
             /\ seconds = 0
             /\ err = ""
             /\ segments = <<>> /\ mergedSegments = <<>> /\ remerged = <<>>
             /\ inputVideo = "" /\ outputVideo = "" /\ lastCommand = ""
             /\ volumeFilter = "" /\ afArg = ""
             /\ swears = <<>> /\ offset = 0 /\ ScanIdle /\ GuiIdle

CallParseSRTTime ==
    /\ pc = "parse"
    /\ LET r == parseSRTTime(srtTime)
       IN  /\ seconds' = r.seconds
           /\ err' = r.err
    /\ pc' = "parsed"
    /\ UNCHANGED <<srtTime, mergeVars, genVars, inputVars, guiVars, scanVars>>

NextParse == CallParseSRTTime

SpecParse == InitParse /\ [][NextParse]_vars

\* the value the timestamp's digits denote, in milliseconds:
\* HH*3600 + MM*60 + SS + mmm/1000 seconds
HMSValue(s) == Atoi(s, 1, 2) * 3600000 + Atoi(s, 4, 2) * 60000
               + Atoi(s, 7, 2) * 1000 + Atoi(s, 10, 3)

\* C9: whenever parseSRTTime succeeds on a string HH:MM:SS,mmm, the value it
\* returns is HH*3600 + MM*60 + SS + mmm/1000 seconds; "00:01:23,456" gives
\* 83.456.
C9_ParsedValue ==
    /\ (pc = "parsed" /\ err = "" /\ srtTime \in LexicalTimestamps)
          => seconds = HMSValue(srtTime)
    /\ (pc = "parsed" /\ srtTime = "00:01:23,456")
          => (err = "" /\ seconds = 83456)

C9_Witness == /\ pc = "parsed" /\ err = ""
              /\ srtTime = "23:59:53,999"
              /\ seconds = 86393999

\* C10: parseSRTTime accepts every string of two-digit hours, minutes and
\* seconds and three-digit milliseconds the block-start pattern captures,
\* hours of 24 or more included: it fails only on a string of another shape.
C10_LexicalAccepted ==
    (pc = "parsed" /\ srtTime \in LexicalTimestamps) => err = ""

(***************************************************************************)
(* mergeSegments                                                           *)
(***************************************************************************)
\* the 1.0 of segments[i].Start <= current.End+1.0, in milliseconds
MergeGap == 1000

Segment(start, end) == [Start |-> start, End |-> end]

\* the order sort.Slice leaves: segments[i].Start never decreases
IsSortedByStart(segs) ==
    \A i \in 1..(Len(segs) - 1) : segs[i].Start <= segs[i + 1].Start

\* the orders of segs
Reorderings(segs) ==
    {[i \in 1..Len(segs) |-> segs[f[i]]] : f \in Permutations(1..Len(segs))}

\* the mutant: the slice is left in the order it came in
SortOutcomesAsGiven(segs) == {segs}

\* sort.Slice(segments, less by Start): the sort is not stable, so segments
\* with equal Start may end in any order; a slice already in order is left
\* as it is (no element is less than the one before it, so nothing is swapped).
SortOutcomes(segs) ==
    IF IsSortedByStart(segs) THEN {segs}
    ELSE {p \in Reorderings(segs) : IsSortedByStart(p)}

\* the mutant: a gap of exactly one second no longer merges
CloseToStrict(current, next) == next.Start < current.End + MergeGap

\* segments[i].Start <= current.End+1.0
CloseTo(current, next) == next.Start <= current.End + MergeGap

\* the mutant: current.End stays as it is
ExtendNever(current, next) == current

\* the mutant: current.End is set to the End of the next interval, larger
\* or not
ExtendAlways(current, next) == [current EXCEPT !.End = next.End]

\* if segments[i].End > current.End { current.End = segments[i].End }
Extend(current, next) ==
    IF next.End > current.End THEN [current EXCEPT !.End = next.End]
    ELSE current

\* the mutant: the new current keeps the End of the interval it replaces
StartNewStaleEnd(current, next) == [next EXCEPT !.End = current.End]

\* current = segments[i]
StartNew(current, next) == next

\* the mutant: the last current is never appended
FlushNothing(merged, current) == merged

\* merged = append(merged, current), after the loop
Flush(merged, current) == Append(merged, current)

\* the loop over segments[1:], from index i (1-based) on
RECURSIVE Sweep(_, _, _, _)
Sweep(segs, i, current, merged) ==
    IF i > Len(segs) THEN Flush(merged, current)
    ELSE IF CloseTo(current, segs[i])
         THEN Sweep(segs, i + 1, Extend(current, segs[i]), merged)
         ELSE Sweep(segs, i + 1, StartNew(current, segs[i]),
                    Append(merged, current))

\* what mergeSegments returns once sort.Slice has left the slice as sorted
mergeSorted(sorted) ==
    IF Len(sorted) = 0 THEN sorted
    ELSE Sweep(sorted, 2, sorted[1], <<>>)

(***************************************************************************)
(* SpecMerge: mergeSegments applied to a list of intervals, and then to    *)
(* its own output                                                          *)
(***************************************************************************)
MaxSegs == 3

\* interval boundaries (ms): 4500 and 5500 are exactly one second apart,
\* 4500 and 5501 one millisecond more
Times == {0, 4500, 5500, 5501}

\* every pair of boundaries, End < Start included
Intervals == {Segment(s, e) : s \in Times, e \in Times}

SegLists(pool) == UNION {[1..n -> pool] : n \in 0..MaxSegs}

\* three intervals of which the first two are half a second apart
MergeExample ==
    <<Segment(1000, 2000), Segment(2500, 3000), Segment(10000, 11000)>>

InitMerge == /\ pc = "merge"
             /\ segments \in SegLists(Intervals) \cup {MergeExample}
             /\ mergedSegments = <<>> /\ remerged = <<>>
             /\ srtTime = "" /\ seconds = 0 /\ err = ""
             /\ inputVideo = "" /\ outputVideo = "" /\ lastCommand = ""
             /\ volumeFilter = "" /\ afArg = ""
             /\ swears = <<>> /\ offset = 0 /\ ScanIdle /\ GuiIdle

\* mergedSegments := mergeSegments(segments); the slice is sorted in place
CallMergeSegments ==
    /\ pc = "merge"
    /\ \E sorted \in SortOutcomes(segments) :
          /\ segments' = sorted
          /\ mergedSegments' = mergeSorted(sorted)
    /\ pc' = "merged"
    /\ UNCHANGED <<remerged, parseVars, err, genVars, inputVars, guiVars, scanVars>>

\* remerged := mergeSegments(mergedSegments)
CallMergeSegmentsAgain ==
    /\ pc = "merged"
    /\ \E sorted \in SortOutcomes(mergedSegments) :
          /\ mergedSegments' = sorted
          /\ remerged' = mergeSorted(sorted)
    /\ pc' = "remerged"
    /\ UNCHANGED <<segments, parseVars, err, genVars, inputVars, guiVars, scanVars>>

NextMerge == CallMergeSegments \/ CallMergeSegmentsAgain

SpecMerge == InitMerge /\ [][NextMerge]_vars

WellFormed(segs) == \A i \in 1..Len(segs) : segs[i].Start <= segs[i].End

\* C3: in the output of mergeSegments every two consecutive intervals (a, b)
\* have b.Start > a.End + 1.0, and the output is in order of Start, whatever
\* the input was.
C3_Separated ==
    pc = "merged" =>
        \A i \in 1..(Len(mergedSegments) - 1) :
            /\ mergedSegments[i + 1].Start > mergedSegments[i].End + MergeGap
            /\ mergedSegments[i].Start <= mergedSegments[i + 1].Start

\* three intervals went in, two of them one second apart were merged, and
\* two separated intervals came out
C3_Witness == /\ pc = "merged"
              /\ Len(segments) = 3
              /\ mergedSegments = <<Segment(0, 4500), Segment(5501, 5501)>>

\* C4 as stated: every interval in the output of mergeSegments has
\* Start <= End, with no precondition on the input intervals.
C4_OutputWellFormed == pc = "merged" => WellFormed(mergedSegments)

\* C4 as amended: when every input interval has Start <= End, every interval
\* in the output of mergeSegments has Start <= End.
C4_WellFormedPreserved ==
    (pc = "merged" /\ WellFormed(segments)) => WellFormed(mergedSegments)

\* well-formed intervals went in and some were merged
C4_Witness == /\ pc = "merged"
              /\ WellFormed(segments)
              /\ Len(segments) = 3
              /\ Len(mergedSegments) = 2
              /\ mergedSegments[1].Start < mergedSegments[1].End

\* C5: mergeSegments is idempotent: applied to its own output it returns
\* the same sequence of intervals.
C5_Idempotent == [][pc = "merged" => remerged' = mergedSegments]_vars

\* the second call has returned, for an input the first call changed
C5_Witness == /\ pc = "remerged"
              /\ Len(segments) = 3
              /\ Len(remerged) = 2
              /\ remerged = mergedSegments

(***************************************************************************)
(* generateFFmpegCommand and getVolumeFilter                               *)
(***************************************************************************)
DigitStr(d) == CharAt(DigitChars, d + 1)

\* the decimal digits of n >= 0
RECURSIVE Itoa(_)
Itoa(n) == IF n < 10 THEN DigitStr(n) ELSE Itoa(n \div 10) \o DigitStr(n % 10)

\* the mutant: the fraction is not padded with zeros
FormatFloat3Unpadded(ms) ==
    LET a == IF ms < 0 THEN -ms ELSE ms
    IN  (IF ms < 0 THEN "-" ELSE "") \o Itoa(a \div 1000) \o "." \o Itoa(a % 1000)

\* fmt's %.3f of a value of ms milliseconds: sign, integer part, '.', and
\* exactly three fractional digits
FormatFloat3(ms) ==
    LET a == IF ms < 0 THEN -ms ELSE ms
        f == a % 1000
    IN  (IF ms < 0 THEN "-" ELSE "") \o Itoa(a \div 1000) \o "."
        \o DigitStr(f \div 100) \o DigitStr((f \div 10) % 10) \o DigitStr(f % 10)

\* strconv.Quote's rendering of one character: the double quote and the
\* backslash are escaped with a backslash, a tab is written \t, and any
\* other printable character stands for itself
QuoteChar(c) ==
    CASE c = "\"" -> "\\\""
      [] c = "\\" -> "\\\\"
      [] c = "\t" -> "\\t"
      [] OTHER -> c

RECURSIVE QuoteBody(_, _)
QuoteBody(s, i) ==
    IF i > Len(s) THEN "" ELSE QuoteChar(CharAt(s, i)) \o QuoteBody(s, i + 1)

\* the mutant: the string is put between the quotes as it is
QuoteVerbatim(s) == "\"" \o s \o "\""

\* fmt's %q of a string: strconv.Quote
Quote(s) == "\"" \o QuoteBody(s, 1) \o "\""

\* fmt.Sprintf("between(t,%.3f,%.3f)", seg.Start, seg.End)
BetweenCondition(seg) ==
    "between(t," \o FormatFloat3(seg.Start) \o "," \o FormatFloat3(seg.End) \o ")"

\* strings.Join(enableConditions, "+"), from the i-th interval on
RECURSIVE JoinConditions(_, _)
JoinConditions(segs, i) ==
    IF i > Len(segs) THEN ""
    ELSE IF i = Len(segs) THEN BetweenCondition(segs[i])
    ELSE BetweenCondition(segs[i]) \o "+" \o JoinConditions(segs, i + 1)

enableExpr(segs) == JoinConditions(segs, 1)

\* fmt.Sprintf("volume=enable='%s':volume=0", expr)
VolumeFilterArg(expr) == "volume=enable='" \o expr \o "':volume=0"

\* the mutant: the notice is not put before the copy-only command
generateFFmpegCommandBare(input, output, segs) ==
    IF Len(segs) = 0
    THEN "ffmpeg -i " \o Quote(input) \o " -c copy " \o Quote(output)
    ELSE "ffmpeg -i " \o Quote(input) \o " -af "
         \o Quote(VolumeFilterArg(enableExpr(segs)))
         \o " -c:v copy -c:a aac " \o Quote(output)

generateFFmpegCommand(input, output, segs) ==
    IF Len(segs) = 0
    THEN "No segments to mute. Copying input to output: ffmpeg -i "
         \o Quote(input) \o " -c copy " \o Quote(output)
    ELSE "ffmpeg -i " \o Quote(input) \o " -af "
         \o Quote(VolumeFilterArg(enableExpr(segs)))
         \o " -c:v copy -c:a aac " \o Quote(output)

\* cmdStr[start : end+1] with start > end+1 panics
SliceBoundsPanic == "panic: slice bounds out of range"

getVolumeFilter(cmdStr) ==
    LET start == Index(cmdStr, "between(")
        end   == LastIndex(cmdStr, ")")
    IN  IF start = -1 \/ end = -1 THEN ""
        ELSE IF start > end + 1 THEN SliceBoundsPanic
        ELSE Slice(cmdStr, start, end + 1)

(***************************************************************************)
(* SpecGen: generateFFmpegCommand applied to a list of intervals and two   *)
(* identifiers, then executeFFmpeg's use of getVolumeFilter on the result  *)
(***************************************************************************)
InputIds == {"in.mkv", "C:\\v\\in.mkv", "a \"b\".mkv", "between(t).mkv"}

OutputIds == {"out.mp4", "C:\\v\\out.mp4", "Movie (2019)-CLEAN.mp4",
              "x\ty.mp4"}

\* the identifiers %q leaves as they are
PlainId(s) == /\ ~Contains(s, "\"")
              /\ ~Contains(s, "\\")
              /\ ~Contains(s, "\t")

GenIntervals == {Segment(4500, 5500), Segment(5, 83456), Segment(0, 1000)}

InitGen == /\ pc = "generate"
           /\ inputVideo \in InputIds
           /\ outputVideo \in OutputIds
           /\ mergedSegments \in SegLists(GenIntervals)
           /\ lastCommand = "" /\ volumeFilter = "" /\ afArg = ""
           /\ segments = <<>> /\ remerged = <<>>
           /\ srtTime = "" /\ seconds = 0 /\ err = ""
           /\ swears = <<>> /\ offset = 0 /\ ScanIdle /\ GuiIdle

\* app.lastCommand = generateFFmpegCommand(videoPath, outputPath, mergedSegments)
CallGenerateFFmpegCommand ==
    /\ pc = "generate"
    /\ lastCommand' = generateFFmpegCommand(inputVideo, outputVideo, mergedSegments)
    /\ pc' = "generated"
    /\ UNCHANGED <<inputVideo, outputVideo, volumeFilter, afArg, mergeVars,
                   parseVars, err, inputVars, guiVars, scanVars>>

\* executeFFmpeg: the volume filter is cut out of lastCommand and put into
\* the -af argument; an empty filter ends the execution with an error
ExecuteFFmpegFilter ==
    /\ pc = "generated"
    /\ lastCommand # ""
    /\ LET vf == getVolumeFilter(lastCommand)
       IN  /\ volumeFilter' = vf
           /\ IF vf = ""
              THEN /\ err' = "Could not generate volume filter"
                   /\ afArg' = ""
              ELSE /\ err' = ""
                   /\ afArg' = VolumeFilterArg(vf)
    /\ pc' = "executed"
    /\ UNCHANGED <<inputVideo, outputVideo, lastCommand, mergeVars, parseVars,
                   inputVars, guiVars, scanVars>>

NextGen == CallGenerateFFmpegCommand \/ ExecuteFFmpegFilter

SpecGen == InitGen /\ [][NextGen]_vars

\* a value of ms milliseconds written with exactly three fractional digits
Fixed3(ms) ==
    LET a == IF ms < 0 THEN -ms ELSE ms
    IN  (IF ms < 0 THEN "-" ELSE "") \o Itoa(a \div 1000) \o "."
        \o SubSeq(Itoa(1000 + (a % 1000)), 2, 4)

\* one between(t,<start>,<end>) per interval, in the order of the list,
\* joined by '+'
RECURSIVE ExpectedExpr(_)
ExpectedExpr(segs) ==
    LET n == Len(segs)
        last == "between(t," \o Fixed3(segs[n].Start) \o ","
                \o Fixed3(segs[n].End) \o ")"
    IN  IF n = 1 THEN last
        ELSE ExpectedExpr(SubSeq(segs, 1, n - 1)) \o "+" \o last

\* the filtered directive with <input> and <output> between the quotes
FilteredDirective(input, expr, output) ==
    "ffmpeg -i \"" \o input \o "\" -af \"volume=enable='" \o expr
    \o "':volume=0\" -c:v copy -c:a aac \"" \o output \o "\""

\* the copy-only directive with <input> and <output> between the quotes
CopyDirective(input, output) ==
    "ffmpeg -i \"" \o input \o "\" -c copy \"" \o output \o "\""

\* an identifier as %q writes it between the quotes
Escaped(s) == LET q == Quote(s) IN SubSeq(q, 2, Len(q) - 1)

\* C6 as stated: for a non-empty interval list the command is exactly the
\* filtered directive with the identifiers verbatim and one
\* between(t,<start>,<end>) per interval, in order, joined by '+', every
\* boundary with exactly 3 fractional digits.
C6_FilteredVerbatim ==
    (pc = "generated" /\ Len(mergedSegments) > 0) =>
        lastCommand = FilteredDirective(inputVideo,
                                        ExpectedExpr(mergedSegments),
                                        outputVideo)

\* C6 as amended: the same, with each identifier written between its quotes
\* as Go's %q writes it: verbatim when it holds no double quote, backslash
\* or non-printable character, and with those characters backslash-escaped
\* otherwise (C:\v\in.mkv is written C:\\v\\in.mkv).
C6_FilteredQuoted ==
    (pc = "generated" /\ Len(mergedSegments) > 0) =>
        /\ lastCommand = FilteredDirective(Escaped(inputVideo),
                                           ExpectedExpr(mergedSegments),
                                           Escaped(outputVideo))
        /\ PlainId(inputVideo) => Escaped(inputVideo) = inputVideo
        /\ PlainId(outputVideo) => Escaped(outputVideo) = outputVideo
        /\ inputVideo = "C:\\v\\in.mkv"
              => Escaped(inputVideo) = "C:\\\\v\\\\in.mkv"
        /\ inputVideo = "a \"b\".mkv"
              => Escaped(inputVideo) = "a \\\"b\\\".mkv"

\* a command for two intervals, an input with backslashes and a plain output
C6_Witness ==
    /\ pc = "generated"
    /\ mergedSegments = <<Segment(5, 83456), Segment(4500, 5500)>>
    /\ inputVideo = "C:\\v\\in.mkv"
    /\ outputVideo = "out.mp4"
    /\ lastCommand = "ffmpeg -i \"C:\\\\v\\\\in.mkv\" -af \"volume=enable='"
                     \o "between(t,0.005,83.456)+between(t,4.500,5.500)"
                     \o "':volume=0\" -c:v copy -c:a aac \"out.mp4\""

\* C7 as stated: for an empty interval list the returned string is exactly
\* the copy-only directive, the identifiers verbatim between the quotes.
C7_CopyOnlyExact ==
    (pc = "generated" /\ Len(mergedSegments) = 0) =>
        lastCommand = CopyDirective(inputVideo, outputVideo)

\* C7 as amended: for an empty interval list the returned string is the
\* notice "No segments to mute. Copying input to output: " followed by the
\* copy-only directive, each identifier written between its quotes as Go's
\* %q writes it (verbatim when it holds no double quote, backslash or
\* non-printable character).
C7_CopyOnlyNotice ==
    (pc = "generated" /\ Len(mergedSegments) = 0) =>
        /\ lastCommand = "No segments to mute. Copying input to output: "
                         \o CopyDirective(Escaped(inputVideo),
                                          Escaped(outputVideo))
        /\ PlainId(inputVideo) => Escaped(inputVideo) = inputVideo
        /\ PlainId(outputVideo) => Escaped(outputVideo) = outputVideo
        /\ outputVideo = "C:\\v\\out.mp4"
              => Escaped(outputVideo) = "C:\\\\v\\\\out.mp4"

C7_Witness ==
    /\ pc = "generated"
    /\ mergedSegments = <<>>
    /\ inputVideo = "in.mkv"
    /\ outputVideo = "out.mp4"
    /\ lastCommand = "No segments to mute. Copying input to output: "
                     \o "ffmpeg -i \"in.mkv\" -c copy \"out.mp4\""

\* C8: for a non-empty interval list and any identifiers, what
\* getVolumeFilter cuts out of the generated command (from the first
\* "between(" to the last ")") is the enable expression the command was
\* built from, so the -af argument of executeFFmpeg is the generated filter.
C8_RoundTrip ==
    (pc = "executed" /\ Len(mergedSegments) > 0) =>
        /\ volumeFilter = ExpectedExpr(mergedSegments)
        /\ afArg = "volume=enable='" \o ExpectedExpr(mergedSegments)
                   \o "':volume=0"

(***************************************************************************)
(* findSwearTimestamps                                                     *)
(***************************************************************************)
UpperChars == "ABCDEFGHIJKLMNOPQRSTUVWXYZ"
LowerChars == "abcdefghijklmnopqrstuvwxyz"

\* the lower-case letter of each upper-case letter
LowerOf == [c \in {CharAt(UpperChars, i) : i \in 1..26} |->
               CharAt(LowerChars, Index(UpperChars, c) + 1)]

\* unicode.ToLower of one character
ToLowerChar(c) == IF c \in DOMAIN LowerOf THEN LowerOf[c] ELSE c

\* strings.ToLower: a string without an upper-case letter is returned as it
\* is, in any other every character is mapped by unicode.ToLower
RECURSIVE ToLower(_)
ToLower(s) ==
    IF \A i \in 1..Len(s) : CharAt(s, i) \notin DOMAIN LowerOf THEN s
    ELSE IF Len(s) = 1 THEN ToLowerChar(s)
    ELSE ToLower(SubSeq(s, 1, Len(s) \div 2))
         \o ToLower(SubSeq(s, (Len(s) \div 2) + 1, Len(s)))

\* the white space of strings.TrimSpace and of \s
IsSpaceAt(s, i) == /\ 1 <= i /\ i <= Len(s)
                   /\ CharAt(s, i) \in {" ", "\t"}

\* strings.TrimSpace
TrimSpace(s) ==
    LET solid == {i \in 1..Len(s) : ~IsSpaceAt(s, i)}
    IN  IF solid = {} THEN ""
        ELSE SubSeq(s, CHOOSE i \in solid : \A j \in solid : i <= j,
                       CHOOSE i \in solid : \A j \in solid : i >= j)

\* \d{2}:\d{2}:\d{2},\d{3} at position i
IsTimestampAt(s, i) ==
    /\ IsDigitAt(s, i) /\ IsDigitAt(s, i + 1) /\ HasPrefixAt(s, i + 2, ":")
    /\ IsDigitAt(s, i + 3) /\ IsDigitAt(s, i + 4) /\ HasPrefixAt(s, i + 5, ":")
    /\ IsDigitAt(s, i + 6) /\ IsDigitAt(s, i + 7) /\ HasPrefixAt(s, i + 8, ",")
    /\ IsDigitAt(s, i + 9) /\ IsDigitAt(s, i + 10) /\ IsDigitAt(s, i + 11)

\* \s* from position i: the position of the first character that is no space
RECURSIVE SkipSpaces(_, _)
SkipSpaces(s, i) == IF IsSpaceAt(s, i) THEN SkipSpaces(s, i + 1) ELSE i

\* where the second timestamp starts when srtTimePattern matches at i, else 0
PatternAt(s, i) ==
    IF ~IsTimestampAt(s, i) THEN 0
    ELSE LET j == SkipSpaces(s, i + 12)
         IN  IF ~HasPrefixAt(s, j, "-->") THEN 0
             ELSE LET k == SkipSpaces(s, j + 3)
                  IN  IF IsTimestampAt(s, k) THEN k ELSE 0

\* srtTimePattern.FindStringSubmatch: the leftmost match and its two groups
FindStringSubmatch(s) ==
    LET hits == {i \in 1..Len(s) : PatternAt(s, i) > 0}
    IN  IF hits = {} THEN <<>>
        ELSE LET i == CHOOSE h \in hits : \A j \in hits : h <= j
                 k == PatternAt(s, i)
             IN  <<SubSeq(s, i, k + 11), SubSeq(s, i, i + 11),
                   SubSeq(s, k, k + 11)>>

\* srtTimePattern.MatchString
MatchString(s) == FindStringSubmatch(s) # <<>>

\* the mutant: the term is looked for as it is written
ContainsSwearAsWritten(text, swear) == Contains(text, swear)

\* strings.Contains(text, strings.ToLower(swear))
ContainsSwear(text, swear) == Contains(text, ToLower(swear))

\* the mutant: the interval is dropped only when both boundaries are negative
IsNegativeBoth(adjustedStart, adjustedEnd) ==
    adjustedStart < 0 /\ adjustedEnd < 0

\* adjustedStart < 0 || adjustedEnd < 0, at a blank line
IsNegative(adjustedStart, adjustedEnd) ==
    adjustedStart < 0 \/ adjustedEnd < 0

\* the mutant: only the end is looked at
IsNonNegativeEnd(adjustedStart, adjustedEnd) == adjustedEnd >= 0

\* adjustedStart >= 0 && adjustedEnd >= 0, at the end of the input
IsNonNegative(adjustedStart, adjustedEnd) ==
    adjustedStart >= 0 /\ adjustedEnd >= 0

\* adjustedStart := currentStart + offset
AdjustStart(start, off) == start + off

\* the mutant: the offset is not applied to the end
AdjustEndUnshifted(end, off) == end

\* adjustedEnd := currentEnd + offset
AdjustEnd(end, off) == end + off

\* the "Warning: Offset %f makes segment (%f, %f) negative, skipping" message
Warning(off, start, end) == [offset |-> off, start |-> start, end |-> end]

\* the loop over swears at a blank line, from the i-th term on: the continue
\* after the warning goes on with the next term, the break after the append
\* leaves the loop. st is [segments, warnings].
RECURSIVE BlankLineLoop(_, _, _, _, _, _, _)
BlankLineLoop(text, sw, off, start, end, i, st) ==
    IF i > Len(sw) THEN st
    ELSE IF ContainsSwear(text, sw[i])
         THEN IF IsNegative(AdjustStart(start, off), AdjustEnd(end, off))
              THEN BlankLineLoop(text, sw, off, start, end, i + 1,
                     [st EXCEPT !.warnings =
                                    Append(@, Warning(off, start, end))])
              ELSE [st EXCEPT !.segments =
                                  Append(@, Segment(AdjustStart(start, off),
                                                    AdjustEnd(end, off)))]
         ELSE BlankLineLoop(text, sw, off, start, end, i + 1, st)

\* the loop over swears after the last line, from the i-th term on: the
\* break leaves the loop after the first term the text contains
RECURSIVE EndOfInputLoop(_, _, _, _, _, _, _)
EndOfInputLoop(text, sw, off, start, end, i, st) ==
    IF i > Len(sw) THEN st
    ELSE IF ContainsSwear(text, sw[i])
         THEN IF IsNonNegative(AdjustStart(start, off), AdjustEnd(end, off))
              THEN [st EXCEPT !.segments =
                                  Append(@, Segment(AdjustStart(start, off),
                                                    AdjustEnd(end, off)))]
              ELSE [st EXCEPT !.warnings =
                                  Append(@, Warning(off, start, end))]
         ELSE EndOfInputLoop(text, sw, off, start, end, i + 1, st)

(***************************************************************************)
(* Spec: one run of the pipeline, as main and processVideo make it:        *)
(* findSwearTimestamps line by line, then mergeSegments, then              *)
(* generateFFmpegCommand                                                   *)
(***************************************************************************)
MaxLines == 5

\* the lines a subtitle file is made of here, as scanner.Text() returns them
LinePool == {"", "  ",
             "00:00:05,000 --> 00:00:06,000",
             "00:00:00,400 --> 00:00:07,000",
             "00:00:04,500-->00:00:00,000 X1:0",
             "00:00:08,000 --> 24:00:00,000",
             " Fucking awesome"}

\* line := strings.TrimSpace(scanner.Text()), and what srtTimePattern
\* finds in it
ScannedLine(raw) ==
    [line |-> TrimSpace(raw), matches |-> FindStringSubmatch(TrimSpace(raw))]

ScannedLines == {ScannedLine(raw) : raw \in LinePool}

Vocabularies == {<<"fuck", "Fucking">>, <<"shit">>}

Offsets == {-10000, -500, 0}

Init == /\ pc = "scan"
        /\ swears \in Vocabularies
        /\ offset \in Offsets
        /\ inputVideo = "in.mkv"
        /\ outputVideo = "out.mp4"
        /\ ScanIdle /\ GuiIdle
        /\ segments = <<>> /\ mergedSegments = <<>> /\ remerged = <<>>
        /\ lastCommand = "" /\ volumeFilter = "" /\ afArg = ""
        /\ srtTime = "" /\ seconds = 0 /\ err = ""

\* findSwearTimestamps returns: its scanner and its local variables are gone,
\* what it has printed stays
ScanReturn == /\ lineNo' = 0 /\ line' = "" /\ inSubtitleBlock' = FALSE
              /\ currentStart' = 0 /\ currentEnd' = 0 /\ subtitleText' = ""

\* scanner.Scan() returns a line that is empty once trimmed
ScanBlankLine ==
    /\ pc = "scan"
    /\ lineNo < MaxLines
    /\ \E scanned \in ScannedLines :
          /\ scanned.line = ""
          /\ line' = scanned.line
    /\ lineNo' = lineNo + 1
    /\ IF inSubtitleBlock
       THEN \E st \in {BlankLineLoop(ToLower(subtitleText), swears, offset,
                                      currentStart, currentEnd, 1,
                                      [segments |-> segments,
                                       warnings |-> warnings])} :
                /\ segments' = st.segments
                /\ warnings' = st.warnings
                /\ inSubtitleBlock' = FALSE
                /\ subtitleText' = ""
       ELSE UNCHANGED <<segments, warnings, inSubtitleBlock, subtitleText>>
    /\ UNCHANGED <<pc, currentStart, currentEnd, err, parseVars, inputVars, guiVars,
                   genVars, mergedSegments, remerged>>

\* the mutant: the intervals collected so far are returned with the error
ReturnPartial(collected) == collected

\* return nil, err: the intervals collected so far are not returned
ReturnOnError(collected) == <<>>

\* the mutant: a line the pattern matches starts a block wherever it is read
StartsBlockAnywhere(scanned, inBlock) == scanned.matches # <<>>

\* srtTimePattern.MatchString(line) && !inSubtitleBlock
StartsBlock(scanned, inBlock) == scanned.matches # <<>> /\ ~inBlock

\* scanner.Scan() returns a line srtTimePattern matches, outside a block
ScanTimestampLine ==
    /\ pc = "scan"
    /\ lineNo < MaxLines
    /\ \E scanned \in ScannedLines :
          /\ scanned.line # ""
          /\ StartsBlock(scanned, inSubtitleBlock)
          /\ LET start == parseSRTTime(scanned.matches[2])
                 end == parseSRTTime(scanned.matches[3])
             IN  IF start.err # "" \/ end.err # ""
                 THEN \* return nil, err
                      /\ err' = IF start.err # "" THEN start.err ELSE end.err
                      /\ segments' = ReturnOnError(segments)
                      /\ pc' = "failed"
                      /\ ScanReturn
                 ELSE /\ line' = scanned.line
                      /\ lineNo' = lineNo + 1
                      /\ currentStart' = start.seconds
                      /\ currentEnd' = end.seconds
                      /\ inSubtitleBlock' = TRUE
                      /\ UNCHANGED <<err, segments, pc, subtitleText>>
    /\ UNCHANGED <<warnings, parseVars, inputVars, guiVars, genVars,
                   mergedSegments, remerged>>

\* scanner.Scan() returns any other line: text of the block, if in one
ScanTextLine ==
    /\ pc = "scan"
    /\ lineNo < MaxLines
    /\ \E scanned \in ScannedLines :
          /\ scanned.line # ""
          /\ ~StartsBlock(scanned, inSubtitleBlock)
          /\ line' = scanned.line
          /\ subtitleText' = IF inSubtitleBlock
                             THEN subtitleText \o scanned.line \o " "
                             ELSE subtitleText
    /\ lineNo' = lineNo + 1
    /\ UNCHANGED <<pc, inSubtitleBlock, currentStart, currentEnd, warnings,
                   segments, err, parseVars, inputVars, guiVars, genVars,
                   mergedSegments, remerged>>

\* scanner.Scan() returns false: the last block, if open, is processed and
\* findSwearTimestamps returns segments
EndOfInput ==
    /\ pc = "scan"
    /\ IF inSubtitleBlock
       THEN \E st \in {EndOfInputLoop(ToLower(subtitleText), swears, offset,
                                       currentStart, currentEnd, 1,
                                       [segments |-> segments,
                                        warnings |-> warnings])} :
                /\ segments' = st.segments
                /\ warnings' = st.warnings
       ELSE UNCHANGED <<segments, warnings>>
    /\ pc' = "found"
    /\ ScanReturn
    /\ UNCHANGED <<err, parseVars, inputVars, guiVars, genVars, mergedSegments,
                   remerged>>

\* mergedSegments := mergeSegments(segments)
MergeFound ==
    /\ pc = "found"
    /\ \E sorted \in SortOutcomes(segments) :
          /\ segments' = sorted
          /\ mergedSegments' = mergeSorted(sorted)
    /\ pc' = "merged"
    /\ UNCHANGED <<remerged, parseVars, err, genVars, inputVars, guiVars, scanVars>>

\* ffmpegCmd := generateFFmpegCommand(videoPath, outputPath, mergedSegments)
GenerateCommand ==
    /\ pc = "merged"
    /\ lastCommand' = generateFFmpegCommand(inputVideo, outputVideo, mergedSegments)
    /\ pc' = "generated"
    /\ UNCHANGED <<inputVideo, outputVideo, volumeFilter, afArg, mergeVars,
                   parseVars, err, inputVars, guiVars, scanVars>>

Next == \/ ScanBlankLine
        \/ ScanTimestampLine
        \/ ScanTextLine
        \/ EndOfInput
        \/ MergeFound
        \/ GenerateCommand

Spec == Init /\ [][Next]_vars

(***************************************************************************)
(* the blocks findSwearTimestamps closes                                   *)
(***************************************************************************)
\* the text collected for the open block contains a term of the vocabulary,
\* letter case aside
BlockMatched ==
    \E i \in 1..Len(swears) :
        Contains(ToLower(subtitleText), ToLower(swears[i]))

\* the step that closes the open block: a blank line or the end of the input
BlockEnds == pc = "scan" /\ inSubtitleBlock /\ ~inSubtitleBlock'

\* the boundaries of the open block, shifted by the offset
ShiftedStart == currentStart + offset
ShiftedEnd == currentEnd + offset

\* the interval a warning is about, shifted by the offset of the run
DiscardedInterval(w) == Segment(w.start + offset, w.end + offset)

\* how the directive would write an interval
BetweenText(seg) ==
    "between(t," \o Fixed3(seg.Start) \o "," \o Fixed3(seg.End) \o ")"

\* C1: when a block that matches the vocabulary is closed, it is discarded
\* exactly when its shifted start or its shifted end is negative: the
\* interval list is left as it was (nothing clamped is added) and a warning
\* is written; otherwise one interval is added and no warning is written.
\* So every interval of the list has Start >= 0 and End >= 0 at all times,
\* and once the directive is generated, no interval a warning is about is
\* among the merged intervals or written in the directive.
C1_NegativeDiscarded ==
    /\ [](\A i \in 1..Len(segments) :
              segments[i].Start >= 0 /\ segments[i].End >= 0)
    /\ [](pc = "generated" =>
              \A i \in 1..Len(warnings) :
                  /\ \A j \in 1..Len(mergedSegments) :
                         mergedSegments[j] # DiscardedInterval(warnings[i])
                  /\ ~Contains(lastCommand,
                               BetweenText(DiscardedInterval(warnings[i]))))
    /\ [][(BlockEnds /\ BlockMatched) =>
              IF ShiftedStart < 0 \/ ShiftedEnd < 0
              THEN /\ segments' = segments
                   /\ Len(warnings') > Len(warnings)
                   /\ \A i \in (Len(warnings) + 1)..Len(warnings') :
                          warnings'[i] =
                              Warning(offset, currentStart, currentEnd)
              ELSE /\ Len(segments') = Len(segments) + 1
                   /\ warnings' = warnings]_vars

\* a directive has been generated from a run in which one block was
\* discarded for its negative shifted start alone and another was kept
C1_Witness ==
    /\ pc = "generated"
    /\ Len(mergedSegments) > 0
    /\ \E i \in 1..Len(warnings) :
           /\ warnings[i].start + offset < 0
           /\ warnings[i].end + offset >= 0

\* C2: when a block that matches the vocabulary is closed and both of its
\* shifted boundaries are non-negative, exactly one interval is added to the
\* list, (blockStart + offset, blockEnd + offset): both boundaries are
\* shifted by the same offset, so End - Start is the block's duration.
C2_ShiftedInterval ==
    [][(BlockEnds /\ BlockMatched /\ ShiftedStart >= 0 /\ ShiftedEnd >= 0) =>
          /\ segments' = Append(segments, Segment(currentStart + offset,
                                                  currentEnd + offset))
          /\ segments'[Len(segments')].End - segments'[Len(segments')].Start
                 = currentEnd - currentStart]_vars

\* the block 00:00:05,000 --> 00:00:06,000 with "fuck" in its text and the
\* offset -0.5 has been closed and has yielded (4.5, 5.5)
C2_Witness ==
    /\ pc = "scan"
    /\ ~inSubtitleBlock
    /\ swears[1] = "fuck"
    /\ offset = -500
    /\ currentStart = 5000 /\ currentEnd = 6000
    /\ segments = <<Segment(4500, 5500)>>

(***************************************************************************)
(* the pass that a timestamp stops                                         *)
(***************************************************************************)
\* the line is a block-start line with a timestamp parseSRTTime rejects
FailsToConvert(scanned) ==
    /\ scanned.matches # <<>>
    /\ \/ parseSRTTime(scanned.matches[2]).err # ""
       \/ parseSRTTime(scanned.matches[3]).err # ""

\* C11: when a line that srtTimePattern recognises outside a block carries a
\* timestamp parseSRTTime rejects, the pass ends there: the error is returned
\* and no interval is, whatever the earlier blocks had yielded; the caller
\* then stops too, so nothing is merged and no directive is generated.
C11_AbortReturnsNothing ==
    /\ [][pc' = "failed" =>
             /\ pc = "scan" /\ ~inSubtitleBlock
             /\ err' # ""
             /\ segments' = <<>>]_vars
    /\ [][(pc = "scan" /\ ~inSubtitleBlock /\ lineNo' = lineNo + 1) =>
             \A scanned \in ScannedLines :
                 line' = scanned.line => ~FailsToConvert(scanned)]_vars
    /\ [](pc = "failed" => /\ err # ""
                           /\ segments = <<>>
                           /\ mergedSegments = <<>>
                           /\ lastCommand = "")
    /\ [][pc # "failed"]_vars

\* the pass has been aborted after an earlier block had matched, with the
\* error set, no interval returned and no directive generated
C11_Witness ==
    /\ pc = "failed"
    /\ err # ""
    /\ segments = <<>>
    /\ lastCommand = ""
    /\ Len(warnings) > 0

(***************************************************************************)
(* SpecMatch: the two loops over the vocabulary, applied to one block      *)
(***************************************************************************)
\* what subtitleText holds when a block is closed: every line of the block,
\* trimmed, with a space after it
BlockTexts == {"", "Fucking awesome ", "what the FUCK ", "fu ck ",
               "oh god damn it ", "holy SHIT "}

VocabularyTerms == {"fuck", "Fucking", "God damn", "shit", "cks"}

MaxTerms == 2

\* the vocabularies of up to MaxTerms terms
TermLists ==
    UNION {[1..n -> VocabularyTerms] : n \in 0..MaxTerms}

\* a block 00:00:05,000 --> 00:00:06,000 is open and its text is collected
InitMatch ==
    /\ pc = "match"
    /\ swears \in TermLists
    /\ offset \in {-10000, -5500, 0}
    /\ subtitleText \in BlockTexts
    /\ inSubtitleBlock = TRUE
    /\ currentStart = 5000 /\ currentEnd = 6000
    /\ lineNo = 0 /\ line = ""
    /\ GuiIdle
    /\ segments = <<>> /\ warnings = <<>>
    /\ mergedSegments = <<>> /\ remerged = <<>>
    /\ inputVideo = "" /\ outputVideo = ""
    /\ lastCommand = "" /\ volumeFilter = "" /\ afArg = ""
    /\ srtTime = "" /\ seconds = 0 /\ err = ""

\* the loop over swears that a blank line runs
CallBlankLineLoop ==
    /\ pc = "match"
    /\ \E st \in {BlankLineLoop(ToLower(subtitleText), swears, offset,
                                currentStart, currentEnd, 1,
                                [segments |-> segments,
                                 warnings |-> warnings])} :
          /\ segments' = st.segments
          /\ warnings' = st.warnings
    /\ pc' = "blank"
    /\ UNCHANGED <<lineNo, line, inSubtitleBlock, currentStart, currentEnd,
                   subtitleText, err, parseVars, inputVars, guiVars, genVars,
                   mergedSegments, remerged>>

\* the loop over swears that the end of the input runs
CallEndOfInputLoop ==
    /\ pc = "match"
    /\ \E st \in {EndOfInputLoop(ToLower(subtitleText), swears, offset,
                                 currentStart, currentEnd, 1,
                                 [segments |-> segments,
                                  warnings |-> warnings])} :
          /\ segments' = st.segments
          /\ warnings' = st.warnings
    /\ pc' = "eof"
    /\ UNCHANGED <<lineNo, line, inSubtitleBlock, currentStart, currentEnd,
                   subtitleText, err, parseVars, inputVars, guiVars, genVars,
                   mergedSegments, remerged>>

NextMatch == CallBlankLineLoop \/ CallEndOfInputLoop

SpecMatch == InitMatch /\ [][NextMatch]_vars

\* a and b are the same character, or the two cases of one letter
SameLetter(a, b) ==
    \/ a = b
    \/ \E k \in 1..26 : {a, b} = {CharAt(UpperChars, k), CharAt(LowerChars, k)}

\* term stands in text from position i on, letter case aside
OccursAt(text, term, i) ==
    \A k \in 1..Len(term) :
        SameLetter(CharAt(text, i + k - 1), CharAt(term, k))

\* term is a contiguous part of text, letter case aside
FoldContains(text, term) ==
    \E i \in 1..(Len(text) - Len(term) + 1) : OccursAt(text, term, i)

\* the block has been decided as a match: an interval or a warning came of it
BlockDecided == segments # <<>> \/ warnings # <<>>

\* C12: a closed block is treated as a match (an interval is added or a
\* warning is written) exactly when its lower-cased text contains the
\* lower-cased form of some vocabulary term, which is exactly when some term
\* is a contiguous part of the text with letter case ignored: no word
\* boundary is needed, so "fuck" matches inside "Fucking awesome".
C12_MatchIsFoldedSubstring ==
    pc \in {"blank", "eof"} =>
        /\ BlockDecided <=> BlockMatched
        /\ BlockDecided <=>
               \E i \in 1..Len(swears) : FoldContains(subtitleText, swears[i])

\* the text "Fucking awesome" has been matched by the one term "fuck"
C12_Witness ==
    /\ pc = "blank"
    /\ subtitleText = "Fucking awesome "
    /\ swears = <<"fuck">>
    /\ offset = 0
    /\ segments = <<Segment(5000, 6000)>>

\* C13: however many terms of the vocabulary the text of a block contains,
\* closing the block yields at most one outcome, one interval or one
\* warning, whether a blank line or the end of the input closes it.
C13_OneOutcomePerBlock ==
    pc \in {"blank", "eof"} => Len(segments) + Len(warnings) <= 1

\* the intervals the blank-line loop yields for the open block
ViaBlankLine ==
    BlankLineLoop(ToLower(subtitleText), swears, offset, currentStart,
                  currentEnd, 1, [segments |-> <<>>, warnings |-> <<>>]).segments

\* C14: a block that the end of the input closes yields the intervals it
\* would have yielded had a blank line closed it, so a document without a
\* blank line after its last block gives the same intervals as the document
\* with one appended.
C14_EndOfInputAsBlankLine ==
    pc = "eof" => segments = ViaBlankLine

\* the end of the input has closed a block that two terms match, and the
\* block has yielded its interval
C14_Witness ==
    /\ pc = "eof"
    /\ subtitleText = "Fucking awesome "
    /\ swears = <<"fuck", "Fucking">>
    /\ offset = 0
    /\ segments = <<Segment(5000, 6000)>>

(***************************************************************************)
(* the scanner's two states                                                *)
(***************************************************************************)
\* the step reads one more line of the source
ReadsLine == pc = "scan" /\ lineNo' = lineNo + 1

\* l is a line in which srtTimePattern finds a timestamp range
IsRangeLine(l) ==
    \E scanned \in ScannedLines : scanned.line = l /\ scanned.matches # <<>>

\* the two timestamps of the range in l, converted
RangeOf(l) ==
    LET scanned == CHOOSE sc \in ScannedLines : sc.line = l
    IN  [start |-> parseSRTTime(scanned.matches[2]).seconds,
         end |-> parseSRTTime(scanned.matches[3]).seconds]

\* C15: the scanner goes into a block only by reading, outside a block, a
\* line with a timestamp range, whose two times become the block's start
\* and end; it goes out of a block only by reading a blank line or at the
\* end of the input; and a line with a timestamp range read inside a block
\* starts nothing: it is added to the block's text like any other line, the
\* block stays open and keeps its start and end.
C15_ScannerTransitions ==
    [][/\ (~inSubtitleBlock /\ inSubtitleBlock') =>
              /\ ReadsLine
              /\ IsRangeLine(line')
              /\ currentStart' = RangeOf(line').start
              /\ currentEnd' = RangeOf(line').end
       /\ (inSubtitleBlock /\ ~inSubtitleBlock') =>
              \/ ReadsLine /\ line' = ""
              \/ pc = "scan" /\ pc' = "found"
       /\ (inSubtitleBlock /\ ReadsLine /\ IsRangeLine(line')) =>
              /\ inSubtitleBlock'
              /\ subtitleText' = subtitleText \o line' \o " "
              /\ currentStart' = currentStart
              /\ currentEnd' = currentEnd
              /\ segments' = segments]_vars

\* inside the block 00:00:05,000 --> 00:00:06,000 a line with another
\* timestamp range has been read: it is the block's text, and the block has
\* the start and end it was opened with
C15_Witness ==
    /\ pc = "scan"
    /\ inSubtitleBlock
    /\ line = "00:00:00,400 --> 00:00:07,000"
    /\ subtitleText = "00:00:00,400 --> 00:00:07,000 "
    /\ currentStart = 5000 /\ currentEnd = 6000

(***************************************************************************)
(* the sweep of mergeSegments, told from the result's side                 *)
(***************************************************************************)
Max(a, b) == IF a >= b THEN a ELSE b

\* the result so far takes one more interval: it goes into the last interval
\* of the result when it starts no later than one second after its End,
\* else it becomes the last interval
Absorb(result, next) ==
    LET n == Len(result)
    IN  IF next.Start <= result[n].End + 1000
        THEN [result EXCEPT ![n].End = Max(result[n].End, next.End)]
        ELSE Append(result, next)

\* the intervals of segs taken in one after the other
RECURSIVE Coalesce(_)
Coalesce(segs) ==
    IF Len(segs) <= 1 THEN segs
    ELSE Absorb(Coalesce(SubSeq(segs, 1, Len(segs) - 1)), segs[Len(segs)])

\* C16: mergeSegments goes through the intervals in ascending order of Start
\* and joins the next interval to the current one exactly when
\* next.Start <= current.End + 1.0, a gap of exactly one second included,
\* the End of the current one becoming the larger of the two Ends; otherwise
\* the current one is closed and the next becomes current. An empty list
\* gives an empty list, and [(1.0,2.0), (2.5,3.0), (10.0,11.0)] gives
\* [(1.0,3.0), (10.0,11.0)].
C16_SweepCoalesces ==
    pc = "merged" =>
        /\ IsSortedByStart(segments)
        /\ mergedSegments = Coalesce(segments)
        /\ segments = <<>> => mergedSegments = <<>>
        /\ segments = <<Segment(0, 4500), Segment(5500, 5501)>> =>
               mergedSegments = <<Segment(0, 5501)>>
        /\ segments = MergeExample =>
               mergedSegments = <<Segment(1000, 3000), Segment(10000, 11000)>>

\* the three intervals of the example have been merged into two
C16_Witness ==
    /\ pc = "merged"
    /\ segments = MergeExample
    /\ mergedSegments = <<Segment(1000, 3000), Segment(10000, 11000)>>

\* what mergeSegments can return for the intervals of segs handed over in
\* any order, the sort settling equal Starts in any way
OutputsOfAnyOrder(segs) ==
    {mergeSorted(sorted) : sorted \in UNION {SortOutcomes(p) :
                                              p \in Reorderings(segs)}}

\* C17 as stated: the output of mergeSegments depends only on the multiset
\* of the input intervals: every order of the same intervals, and every way
\* the sort settles equal Starts, gives the same output sequence.
C17_OrderIndependent ==
    pc = "merged" => OutputsOfAnyOrder(segments) = {mergedSegments}

\* C17 as amended: when every input interval has Start <= End, every order
\* of the same intervals, and every way the sort settles equal Starts, gives
\* the same output sequence.
C17_OrderIndependentWellFormed ==
    (pc = "merged" /\ WellFormed(segments)) =>
        OutputsOfAnyOrder(segments) = {mergedSegments}

\* three intervals with Start <= End have been merged, two of them with the
\* same Start and different Ends
C17_Witness ==
    /\ pc = "merged"
    /\ WellFormed(segments)
    /\ Len(segments) = 3
    /\ segments[1].Start = segments[2].Start
    /\ segments[1].End # segments[2].End
    /\ Len(mergedSegments) = 2

\* the Starts and Ends of the intervals of segs
Boundaries(segs) ==
    {segs[i].Start : i \in 1..Len(segs)} \cup {segs[i].End : i \in 1..Len(segs)}

\* C18: mergeSegments loses no muted time: every input interval lies within
\* some output interval (output.Start <= Start and End <= output.End), and
\* every Start and End of the output is a Start or End of the input (a Start
\* is in fact the Start of an input interval, an End the End of one).
C18_NoLostTime ==
    pc = "merged" =>
        /\ \A i \in 1..Len(segments) : \E j \in 1..Len(mergedSegments) :
               /\ mergedSegments[j].Start <= segments[i].Start
               /\ segments[i].End <= mergedSegments[j].End
        /\ \A j \in 1..Len(mergedSegments) :
               /\ mergedSegments[j].Start \in Boundaries(segments)
               /\ mergedSegments[j].End \in Boundaries(segments)
               /\ \E i \in 1..Len(segments) :
                      mergedSegments[j].Start = segments[i].Start
               /\ \E i \in 1..Len(segments) :
                      mergedSegments[j].End = segments[i].End

\* three intervals have been merged into one that is none of them
C18_Witness ==
    /\ pc = "merged"
    /\ Len(segments) = 3
    /\ Len(mergedSegments) = 1
    /\ \A i \in 1..3 : segments[i] # mergedSegments[1]
    /\ mergedSegments[1].Start < mergedSegments[1].End

(***************************************************************************)
(* SpecGui: the window of gui.go. The callbacks of the widgets run one at  *)
(* a time on the UI thread; each goroutine that executeFFmpeg starts runs  *)
(* beside them.                                                            *)
(***************************************************************************)
MaxExecutions == 2

SrtPaths == {"/v/in.srt", "/v/b.srt"}
VideoPaths == {"/v/in.mkv"}
\* what the save dialog can return
OutputChoices == {"/v/out", "/w/out.MKV"}
\* the subtitle files on disk: each holds one block, its time range in ms
\* and its text as the scanner accumulates it, and ends with its last text
\* line
SubtitleFiles ==
    [path \in SrtPaths |->
        IF path = "/v/in.srt"
        THEN [start |-> 5000, end |-> 6000, text |-> "Fucking awesome "]
        ELSE [start |-> 8000, end |-> 9000, text |-> "holy SHIT "]]
\* what the offset entry can hold, parsed
GuiOffsets == {-500, 0}
\* what the Save button of the settings dialog can leave in app.swears
GuiVocabularies == {<<"fuck">>, <<"shit">>}

\* findSwearTimestamps(srt, sw, off) for a file of SubtitleFiles: its one
\* block is closed by the end of input
FindSwearTimestampsIn(srt, sw, off) ==
    EndOfInputLoop(ToLower(SubtitleFiles[srt].text), sw, off,
                   SubtitleFiles[srt].start,
                   SubtitleFiles[srt].end, 1,
                   [segments |-> <<>>, warnings |-> <<>>]).segments

\* what processVideo hands to generateFFmpegCommand: mergeSegments of the
\* intervals found
GuiMergedLists(srt, sw, off) ==
    {mergeSorted(sorted) :
        sorted \in SortOutcomes(FindSwearTimestampsIn(srt, sw, off))}

\* strings.HasSuffix
HasSuffix(s, suffix) ==
    /\ Len(suffix) <= Len(s)
    /\ SubSeq(s, Len(s) - Len(suffix) + 1, Len(s)) = suffix

\* filepath.Dir, for a path with '/' separators
Dir(path) ==
    LET i == LastIndex(path, "/")
    IN  IF i < 0 THEN "." ELSE IF i = 0 THEN "/" ELSE Slice(path, 0, i)

\* filepath.Base
Base(path) == Slice(path, LastIndex(path, "/") + 1, Len(path))

\* filepath.Ext: from the last '.' of the last element on
Ext(path) ==
    LET name == Base(path)
        i == LastIndex(name, ".")
    IN  IF i < 0 THEN "" ELSE Slice(name, i, Len(name))

\* filepath.Join of a directory and a file name
Join(dir, name) ==
    IF dir = "." THEN name
    ELSE IF dir = "/" THEN "/" \o name
    ELSE dir \o "/" \o name

\* generateAutoOutputPath: the video's name with -CLEAN.mp4 for its extension
AutoOutputPath(video) ==
    LET filename == Base(video)
        nameWithoutExt ==
            Slice(filename, 0, Len(filename) - Len(Ext(filename)))
    IN  Join(Dir(video), nameWithoutExt \o "-CLEAN.mp4")

ValidExtensions ==
    {".mp4", ".mkv", ".avi", ".mov", ".webm", ".flv", ".wmv", ".m4v", ".3gp"}

\* the output callback's extension check: .mp4 is added to a path without a
\* known extension
EnsureExtension(path) ==
    IF \E ext \in ValidExtensions : HasSuffix(ToLower(path), ext) THEN path
    ELSE path \o ".mp4"

\* canProcess of updateProcessButton
CanProcess(srt, video, output, auto) ==
    IF auto THEN srt # "" /\ video # ""
    ELSE srt # "" /\ video # "" /\ output # ""

\* updateProcessButton: the output path and the two buttons it leaves
UpdateProcessButton(srt, video, output, auto, command) ==
    LET canProcess == CanProcess(srt, video, output, auto)
    IN  [outputPath |-> IF auto /\ canProcess THEN AutoOutputPath(video)
                        ELSE output,
         processBtn |-> canProcess,
         executeBtn |-> command # "" /\ canProcess]

\* app.updateProcessButton() at the end of a callback that leaves srt,
\* video, output, auto and command
CallUpdateProcessButton(srt, video, output, auto, command) ==
    \E u \in {UpdateProcessButton(srt, video, output, auto, command)} :
        /\ outputVideo' = u.outputPath
        /\ processBtn' = u.processBtn
        /\ executeBtn' = u.executeBtn

InitGui ==
    /\ pc = "gui"
    /\ GuiIdle
    /\ inputVideo = "" /\ outputVideo = "" /\ lastCommand = ""
    /\ volumeFilter = "" /\ afArg = ""
    /\ swears = <<"fuck">> /\ offset = 0 /\ ScanIdle
    /\ segments = <<>> /\ mergedSegments = <<>> /\ remerged = <<>>
    /\ srtTime = "" /\ seconds = 0 /\ err = ""

\* the callback of the SRT file dialog
SelectSRT ==
    /\ pc = "gui"
    /\ \E path \in SrtPaths :
          /\ srtPath' = path
          /\ CallUpdateProcessButton(path, inputVideo, outputVideo,
                                     autoOutput, lastCommand)
    /\ UNCHANGED <<pc, inputVideo, lastCommand, volumeFilter, afArg,
                   autoOutput, progressBar, realProgressBar, goroutines,
                   parseVars, err, mergeVars, inputVars, scanVars>>

\* the callback of the video file dialog
SelectVideo ==
    /\ pc = "gui"
    /\ \E path \in VideoPaths :
          /\ inputVideo' = path
          /\ CallUpdateProcessButton(srtPath, path, outputVideo,
                                     autoOutput, lastCommand)
    /\ UNCHANGED <<pc, srtPath, lastCommand, volumeFilter, afArg,
                   autoOutput, progressBar, realProgressBar, goroutines,
                   parseVars, err, mergeVars, inputVars, scanVars>>

\* the callback of the save dialog; its button is enabled while the
\* auto-output box is not checked
SelectOutput ==
    /\ pc = "gui"
    /\ ~autoOutput
    /\ \E path \in OutputChoices :
          CallUpdateProcessButton(srtPath, inputVideo, EnsureExtension(path),
                                  autoOutput, lastCommand)
    /\ UNCHANGED <<pc, srtPath, inputVideo, lastCommand, volumeFilter, afArg,
                   autoOutput, progressBar, realProgressBar, goroutines,
                   parseVars, err, mergeVars, inputVars, scanVars>>

\* the callback of the auto-output box
ToggleAutoOutput ==
    /\ pc = "gui"
    /\ autoOutput' = ~autoOutput
    /\ CallUpdateProcessButton(srtPath, inputVideo,
                               IF autoOutput' THEN outputVideo ELSE "",
                               autoOutput', lastCommand)
    /\ UNCHANGED <<pc, srtPath, inputVideo, lastCommand, volumeFilter, afArg,
                   progressBar, realProgressBar, goroutines,
                   parseVars, err, mergeVars, inputVars, scanVars>>

\* the Save button of the settings dialog: app.swears is replaced
SaveSettings ==
    /\ pc = "gui"
    /\ swears' \in GuiVocabularies
    /\ UNCHANGED <<pc, offset, genVars, guiVars, parseVars, err, mergeVars,
                   scanVars>>

\* processVideo, the callback of the Process button: the offset entry does
\* not parse (strconv.ParseFloat hands back 0 with its syntax error, and the
\* 0 is stored in app.offset), or the subtitle file cannot be read, or a
\* command is generated from the merged intervals and stored
ClickProcess ==
    /\ pc = "gui"
    /\ processBtn
    /\ \/ /\ offset' = 0
          /\ UNCHANGED <<lastCommand, outputVideo, processBtn, executeBtn>>
       \/ /\ offset' \in GuiOffsets
          /\ UNCHANGED <<lastCommand, outputVideo, processBtn, executeBtn>>
       \/ /\ offset' \in GuiOffsets
          /\ \E merged \in GuiMergedLists(srtPath, swears, offset') :
                /\ lastCommand' =
                       generateFFmpegCommand(inputVideo, outputVideo, merged)
                /\ CallUpdateProcessButton(srtPath, inputVideo, outputVideo,
                                           autoOutput, lastCommand')
    /\ UNCHANGED <<pc, srtPath, inputVideo, volumeFilter, afArg, swears,
                   autoOutput, progressBar, realProgressBar, goroutines,
                   parseVars, err, mergeVars, scanVars>>

\* how many goroutines of executeFFmpeg have not ended
InFlight == goroutines.starting + goroutines.waiting + goroutines.deferred

\* executeFFmpeg, the callback of the Execute button, up to 'go func()':
\* the bar is shown and both buttons are disabled, then the video, the
\* output directory and the volume filter are checked, each with a return
EnterExecuteFFmpeg ==
    /\ lastCommand # ""
    /\ processBtn' = FALSE
    /\ executeBtn' = FALSE

ClickExecute ==
    /\ pc = "gui"
    /\ executeBtn
    /\ InFlight < MaxExecutions
    /\ EnterExecuteFFmpeg
    /\ \E videoExists, dirExists, hasDuration \in BOOLEAN :
          IF ~videoExists \/ ~dirExists
          THEN /\ progressBar' = TRUE
               /\ UNCHANGED <<pc, volumeFilter, afArg, realProgressBar,
                              goroutines>>
          ELSE \E filter \in {getVolumeFilter(lastCommand)} :
                  IF filter = SliceBoundsPanic
                  THEN /\ pc' = "crashed"
                       /\ progressBar' = TRUE
                       /\ UNCHANGED <<volumeFilter, afArg, realProgressBar,
                                      goroutines>>
                  ELSE IF filter = ""
                  THEN /\ volumeFilter' = filter
                       /\ progressBar' = TRUE
                       /\ UNCHANGED <<pc, afArg, realProgressBar, goroutines>>
                  ELSE /\ volumeFilter' = filter
                       /\ afArg' = VolumeFilterArg(filter)
                       /\ progressBar' = ~hasDuration
                       /\ realProgressBar' = (realProgressBar \/ hasDuration)
                       /\ goroutines' =
                              [goroutines EXCEPT !.starting = @ + 1]
                       /\ UNCHANGED pc
    /\ UNCHANGED <<srtPath, inputVideo, outputVideo, lastCommand, autoOutput,
                   parseVars, err, mergeVars, inputVars, scanVars>>

\* the goroutine sets up the pipe and starts FFmpeg: either fails and the
\* goroutine returns, or the process runs and the goroutine waits for it
GoStart ==
    /\ pc = "gui"
    /\ goroutines.starting > 0
    /\ \E started \in BOOLEAN :
          goroutines' =
              IF started
              THEN [goroutines EXCEPT !.starting = @ - 1, !.waiting = @ + 1]
              ELSE [goroutines EXCEPT !.starting = @ - 1, !.deferred = @ + 1]
    /\ UNCHANGED <<pc, srtPath, inputVideo, outputVideo, lastCommand,
                   volumeFilter, afArg, autoOutput, processBtn, executeBtn,
                   progressBar, realProgressBar,
                   parseVars, err, mergeVars, inputVars, scanVars>>

\* cmd.Wait() returns: FFmpeg has ended
GoWaitReturns ==
    /\ pc = "gui"
    /\ goroutines.waiting > 0
    /\ goroutines' =
           [goroutines EXCEPT !.waiting = @ - 1, !.deferred = @ + 1]
    /\ UNCHANGED <<pc, srtPath, inputVideo, outputVideo, lastCommand,
                   volumeFilter, afArg, autoOutput, processBtn, executeBtn,
                   progressBar, realProgressBar,
                   parseVars, err, mergeVars, inputVars, scanVars>>

\* the goroutine's deferred function: the bars are hidden and enableButtons
\* calls updateProcessButton
GoDeferred ==
    /\ pc = "gui"
    /\ goroutines.deferred > 0
    /\ goroutines' = [goroutines EXCEPT !.deferred = @ - 1]
    /\ progressBar' = FALSE
    /\ realProgressBar' = FALSE
    /\ CallUpdateProcessButton(srtPath, inputVideo, outputVideo, autoOutput,
                               lastCommand)
    /\ UNCHANGED <<pc, srtPath, inputVideo, lastCommand, volumeFilter, afArg,
                   autoOutput, parseVars, err, mergeVars, inputVars,
                   scanVars>>

NextGui == \/ SelectSRT
           \/ SaveSettings
           \/ SelectVideo
           \/ SelectOutput
           \/ ToggleAutoOutput
           \/ ClickProcess
           \/ ClickExecute
           \/ GoStart
           \/ GoWaitReturns
           \/ GoDeferred

SpecGui == InitGui /\ [][NextGui]_vars

\* FFmpeg ends, and a goroutine that can take a step takes it; nothing makes
\* the user do anything
SpecGuiLive ==
    /\ SpecGui
    /\ WF_vars(GoStart) /\ WF_vars(GoWaitReturns) /\ WF_vars(GoDeferred)

\* C19: while a goroutine of executeFFmpeg has not yet seen FFmpeg end, the
\* Process and Execute buttons are disabled, whatever callbacks run in
\* between, and so no two FFmpeg processes run at the same time.
C19_ButtonsDisabledInFlight ==
    /\ (goroutines.starting + goroutines.waiting > 0) =>
           (~processBtn /\ ~executeBtn)
    /\ goroutines.waiting <= 1

\* C20: whenever executeFFmpeg has shown a progress indicator, the indicators
\* are hidden again at some later time, whichever way executeFFmpeg is left.
C20_IndicatorEventuallyHidden ==
    (progressBar \/ realProgressBar) ~> (~progressBar /\ ~realProgressBar)

\* the commands processVideo would generate now, from the subtitle file, the
\* video, the output path, the offset and the vocabulary the window holds
CurrentCommands ==
    IF srtPath \in SrtPaths
    THEN {generateFFmpegCommand(inputVideo, outputVideo, merged) :
             merged \in GuiMergedLists(srtPath, swears, offset)}
    ELSE {}

\* C21: whenever the Execute button is enabled, app.lastCommand is not empty
\* and is the command generateFFmpegCommand gives for the subtitle file, the
\* video, the output path, the offset and the vocabulary held at that time.
C21_ExecutableCommandIsCurrent ==
    executeBtn => (lastCommand # "" /\ lastCommand \in CurrentCommands)

====
